---- MODULE Spec2Model ----
(***************************************************************************)
(* State-machine model of the ReAct agent loop of JoyHelloAgent            *)
(* (src/ReActAgent.py) together with its tool registry (src/Tools.py).     *)
(*                                                                         *)
(* Text is modelled as a sequence of tokens.  A token is either one of the *)
(* literals the regular expressions of the program look for ("Thought:",   *)
(* "Action:", "Finish", "[", "]", white space) or a single character.      *)
(***************************************************************************)
EXTENDS Integers, Sequences, FiniteSets, TLC

\* ------------------------------------------------------------------ bounds
\* largest max_steps an agent is constructed with
MaxSteps == 3
\* number of runs started on one agent
MaxRuns == 2
\* number of registerTool calls on one tool executor
MaxRegs == 3
\* longest text given to _parse_output on its own
MaxLen == 4
\* number of add_record calls on one Memory
MaxRecords == 3
\* largest max_iterations a ReflectionAgent is constructed with
MaxIterations == 2
\* longest plan the planner's reply holds
MaxPlan == 3

\* ------------------------------------------------------------------ tokens
TH == "Thought:"
AC == "Action:"
OB == "Observation:"
FI == "Finish"
NL == "\n"
SP == " "
LB == "["
RB == "]"

\* \s of the regular expressions
Whitespace == {NL, SP}
\* \w of the regular expressions: the word "Finish" and the single characters
WordTokens == {FI, "s", "u", "a", "t"}
\* the section markers of a reply
Markers == {TH, AC, OB}

\* Python's None
None == <<"None">>

\* as Falsy, for a test `v is None`
IsNone(v) == v = None

\* Python truthiness of a str-or-None value: `not v`
Falsy(v) == v = None \/ v = <<>>

Range(s) == {s[i] : i \in 1..Len(s)}
MinOf(S) == CHOOSE x \in S : \A y \in S : x <= y
MaxOf(S) == CHOOSE x \in S : \A y \in S : x >= y

\* str.strip()
Strip(s) ==
  LET keep == {i \in 1..Len(s) : s[i] \notin Whitespace}
  IN  IF keep = {} THEN <<>> ELSE SubSeq(s, MinOf(keep), MaxOf(keep))

\* "\n".join(parts)
Join(parts) ==
  LET RECURSIVE J(_)
      J(n) == IF n = 0 THEN <<>>
              ELSE IF n = 1 THEN parts[1]
              ELSE J(n - 1) \o <<NL>> \o parts[n]
  IN  J(Len(parts))

\* ------------------------------------------------------------------ parser
\* re.search(r"Action:\s*(.*?)$", text, re.DOTALL) followed by .strip():
\* the leftmost marker, \s* takes the white space after it, the lazy group
\* stops at the first place where $ holds (the end, or before a final "\n")
ActionContent(text) ==
  LET starts == {i \in 1..Len(text) : text[i] = AC}
  IN  IF starts = {} THEN None
      ELSE LET rest == SubSeq(text, MinOf(starts) + 1, Len(text))
               n    == Len(rest)
               k    == MaxOf({j \in 0..n : \A i \in 1..j : rest[i] \in Whitespace})
               stop == IF k < n /\ rest[n] = NL THEN n - 1 ELSE n
           IN  Strip(SubSeq(rest, k + 1, stop))

\* re.search(r"Thought:\s*(.*?)(?=\nAction:|$)", text, re.DOTALL) followed by
\* .strip(): the leftmost marker, \s* takes the white space after it, the
\* lazy group stops at the first place that is followed by "\nAction:" or
\* where $ holds
ThoughtContent(text) ==
  LET starts == {i \in 1..Len(text) : text[i] = TH}
  IN  IF starts = {} THEN None
      ELSE LET rest == SubSeq(text, MinOf(starts) + 1, Len(text))
               n    == Len(rest)
               k    == MaxOf({j \in 0..n : \A i \in 1..j : rest[i] \in Whitespace})
               ends == {e \in k..n :
                          \/ e = n
                          \/ e = n - 1 /\ rest[n] = NL
                          \/ e + 2 <= n /\ rest[e + 1] = NL /\ rest[e + 2] = AC}
           IN  Strip(SubSeq(rest, k + 1, MinOf(ends)))

_parse_output(text) ==
  [thought |-> ThoughtContent(text), action |-> ActionContent(text)]

\* action.startswith("Finish")
StartsWithFinish(action) == Len(action) >= 1 /\ action[1] = FI

\* as FinishMatch, with a lazy group: it stops at the FIRST "]"
FinishMatchLazy(action) ==
  LET closes == {j \in 3..Len(action) : action[j] = RB}
  IN  IF Len(action) >= 3 /\ action[1] = FI /\ action[2] = LB /\ closes # {}
      THEN SubSeq(action, 3, MinOf(closes) - 1)
      ELSE None

\* re.match(r"Finish\[(.*)\]", action, re.DOTALL): group(1), or None when
\* there is no match.  The group is greedy: it runs to the LAST "]".
FinishMatch(action) ==
  LET closes == {j \in 3..Len(action) : action[j] = RB}
  IN  IF Len(action) >= 3 /\ action[1] = FI /\ action[2] = LB /\ closes # {}
      THEN SubSeq(action, 3, MaxOf(closes) - 1)
      ELSE None

\* re.match(r"(\w+)\[(.*)\]", action_text, re.DOTALL): all the ways the
\* pattern can match at the start of the text, as (end of \w+, place of "]");
\* both quantifiers are greedy, so the match taken has the longest name and
\* then the last "]".
ActionMatches(action_text) ==
  {m \in (1..Len(action_text)) \X (1..Len(action_text)) :
      /\ \A i \in 1..m[1] : action_text[i] \in WordTokens
      /\ m[1] + 1 <= Len(action_text)
      /\ action_text[m[1] + 1] = LB
      /\ m[2] > m[1] + 1
      /\ action_text[m[2]] = RB}

\* as MatchGroups, but a text that the pattern does not match is taken whole,
\* as the name and as the input
MatchGroupsLenient(action_text) ==
  LET ms == ActionMatches(action_text)
  IN  IF ms = {} THEN [name |-> action_text, input |-> action_text]
      ELSE LET e == MaxOf({m[1] : m \in ms})
               c == MaxOf({m[2] : m \in {x \in ms : x[1] = e}})
           IN  [name  |-> SubSeq(action_text, 1, e),
                input |-> SubSeq(action_text, e + 2, c - 1)]

\* the groups of the match the pattern takes at the start of the text
MatchGroups(action_text) ==
  LET ms == ActionMatches(action_text)
  IN  IF ms = {} THEN [name |-> None, input |-> None]
      ELSE LET e == MaxOf({m[1] : m \in ms})
               c == MaxOf({m[2] : m \in {x \in ms : x[1] = e}})
           IN  [name  |-> SubSeq(action_text, 1, e),
                input |-> SubSeq(action_text, e + 2, c - 1)]

\* as _parse_action, with re.search in the place of re.match: the pattern may
\* match anywhere in the text, the leftmost match is taken
_parse_action_search(action_text) ==
  LET n  == Len(action_text)
      os == {o \in 0..n : ActionMatches(SubSeq(action_text, o + 1, n)) # {}}
  IN  IF os = {} THEN [name |-> None, input |-> None]
      ELSE MatchGroups(SubSeq(action_text, MinOf(os) + 1, n))

_parse_action(action_text) == MatchGroups(action_text)

\* ---------------------------------------------------------------- registry
\* ToolExecutor.tools: a dict, kept as the sequence of its items in
\* insertion order
HasTool(tools_, name) == \E i \in 1..Len(tools_) : tools_[i].name = name

\* as registerTool, but a name that exists keeps its first entry
registerToolOnce(tools_, name, description, func) ==
  LET item == [name |-> name, description |-> description, func |-> func]
  IN  IF HasTool(tools_, name) THEN tools_ ELSE Append(tools_, item)

\* as registerTool, but a name that exists is removed and entered anew, last
registerToolLast(tools_, name, description, func) ==
  LET item == [name |-> name, description |-> description, func |-> func]
  IN  Append(SelectSeq(tools_, LAMBDA t : t.name # name), item)

registerTool(tools_, name, description, func) ==
  LET item == [name |-> name, description |-> description, func |-> func]
  IN  IF HasTool(tools_, name)
      THEN [i \in 1..Len(tools_) |->
              IF tools_[i].name = name THEN item ELSE tools_[i]]
      ELSE Append(tools_, item)

\* a missing "func": Python's None where a callable is expected
NoFunc == "None"

\* self.tools.get(name, {}).get("func")
getTool(tools_, name) ==
  IF HasTool(tools_, name)
  THEN tools_[CHOOSE i \in 1..Len(tools_) : tools_[i].name = name].func
  ELSE NoFunc

\* f"- {name}: {info['description']}"
ToolLine(item) == <<"-", SP>> \o item.name \o <<":", SP, item.description>>

\* ToolExecutor.getAvailableToolsDesc: one line for each item of the dict, in
\* the order of the dict
getAvailableToolsDesc(tools_) ==
  Join([i \in 1..Len(tools_) |-> ToolLine(tools_[i])])

\* the registry the program builds before it runs the agent:
\* toolExecutor.registerTool("Search", search_description, search)
SearchName == <<"s">>
MainRegistrations ==
  <<[name |-> SearchName, description |-> "search_description", func |-> "search"]>>
MainTools == registerTool(<<>>, SearchName, "search_description", "search")

\* the names, descriptions and handlers the registry is filled with: names
\* differ in case ("s", "S") or altogether
ToolNames == {<<"s">>, <<"S">>, <<"u">>}
Descriptions == {"search_description", "other_description"}
Funcs == {"search", "other"}

\* ------------------------------------------------------------------ prompt
\* f"错误: 未找到名为'{tool_name}'的工具"
NotFoundObservation(tool_name_) == <<"Error:not-found", "'">> \o tool_name_ \o <<"'">>

\* as ActionEntry, without the marker
ActionEntryBare(action) == action

\* f"Action:{action}" and f"Observation:{observation}"
ActionEntry(action) == <<AC>> \o action
ObservationEntry(observation) == <<OB>> \o observation

\* REACT_USER_PROMPT_TEMPLATE.format(question = question, history = history_str)
Question == <<"q">>

\* as UserPrompt, with the history left out of the prompt
UserPromptOfQuestion(history_) == <<"Question:">> \o Question \o <<NL, "History:">>

UserPrompt(history_) == <<"Question:">> \o Question \o <<NL, "History:">> \o Join(history_)

\* ------------------------------------------------------------ collaborators
\* what a tool handler can return (a tool is a black box (text) -> text)
HandlerReturns == {<<"p">>, <<"r">>}

\* an invocation that has not returned yet, and one that raised
Running == <<"running">>
Raised == <<"raised">>

\* the replies of the scripted model client
T0 == <<TH, SP, "t", NL>>
Replies == {
  <<>>,                                             \* no output
  T0 \o <<AC, SP, FI, LB, "a", RB>>,                \* Finish[a]
  T0 \o <<AC, SP, FI, LB, "a", RB, SP, "a", RB>>,   \* Finish[a] a]
  T0 \o <<AC, SP, FI, LB, RB>>,                     \* Finish[]
  T0 \o <<AC, SP, FI>>,                             \* Finish
  T0 \o <<AC, SP, FI, "s", LB, "a", RB>>,           \* Finishs[a]
  T0 \o <<AC, SP, "s", LB, "a", RB>>,               \* s[a]
  T0 \o <<AC, SP, "s", LB, "a", LB, "a", RB, RB>>,  \* s[a[a]]
  T0 \o <<AC, SP, "s", LB, RB>>,                    \* s[]
  T0 \o <<AC, SP, "u", LB, "a", RB>>,               \* u[a]
  T0 \o <<AC, SP, "u", LB, RB>>,                    \* u[]
  T0 \o <<AC, SP, "s">>,                            \* s
  T0 \o <<AC, SP, "u", SP, "s", LB, "a", RB>>,      \* u s[a]
  <<TH, SP, "t">>,                                  \* no Action section
  <<AC, SP, "s", LB, "a", RB, NL>>,                 \* no Thought section
  T0 \o <<AC, SP, "s", LB, "a", RB, NL>> \o T0 \o <<AC, SP, "u", LB, "a", RB>>,
  T0 \o <<AC, SP, FI, LB, "a", RB, NL>> \o T0 \o <<AC, SP, "s", LB, "a", RB>>
}

\* ------------------------------------------------------------ model client
\* the text think returns when the request fails (line 50): an error message
ThinkError == <<"Error:llm-call-failed">>

\* "".join(collected_content) with content = delta.content or ""
Assemble(chunks) ==
  LET RECURSIVE A(_)
      A(n) == IF n = 0 THEN <<>>
              ELSE A(n - 1) \o (IF chunks[n] = None THEN <<>> ELSE chunks[n])
  IN  A(Len(chunks))

\* OpenAICompatibleClient.think on a request that delivers `chunks` and then
\* ends (ok) or fails with an exception (not ok)
think(stream) == IF stream.ok THEN Assemble(stream.chunks) ELSE ThinkError

\* the streams of the scripted requests: every reply, delivered whole and
\* closed by a chunk without content; and a request that fails, at once or
\* after a first chunk
Streams ==
  {[ok |-> TRUE, chunks |-> <<r, None>>] : r \in Replies}
  \cup {[ok |-> FALSE, chunks |-> <<>>], [ok |-> FALSE, chunks |-> <<T0>>]}

\* every text think can return to run
ModelTexts == {think(stream) : stream \in Streams}

\* thought, action = self._parse_output(response), for each text the model
\* client can return: the parse of a text is computed once and looked up
ParsedOutput == [text \in ModelTexts |-> _parse_output(text)]

\* tool_name, tool_input = self._parse_action(action), for the action of
\* each of these texts
ParsedAction ==
  [action_text \in {ParsedOutput[text].action : text \in ModelTexts} |->
     _parse_action(action_text)]

\* ------------------------------------------------------------------- state
VARIABLES
  tools,          \* ToolExecutor.tools
  max_steps,      \* ReActAgent.max_steps
  history,        \* ReActAgent.history
  current_step,   \* run: current_step
  is_success,     \* run: is_success
  user_prompt,    \* run: user_prompt of the latest model call
  response,       \* run: response, the latest reply of the model client
  final_answer,   \* run: final_answer
  pc,             \* where the agent is: idle, loop, think, tool, done
  outcome,        \* how the latest run ended: none, Finished, Aborted, Raised
  replies,        \* every reply of the model client in this run, in order
  invoked,        \* every handler invocation of this run, in order
  stdout,         \* what this run has printed, one tag for each print of run
  request_ok,     \* whether the latest request of the model client succeeded
  registered,     \* every registerTool call so far, in order
  runs,           \* the number of runs started on this agent
  stale,          \* whether self.history held entries when this run was entered
  thought,        \* run: thought, the Thought of the latest reply parsed
  records,        \* Memory.records
  max_iteration,  \* ReflectionAgent.max_iteration
  iteration,      \* the index of the for loop under way (iteration, i)
  last_code,      \* ReflectionAgent.run: last_code
  review_response, \* ReflectionAgent.run: review_response
  final_code,     \* ReflectionAgent.run: final_code, what run returns
  prompt_histories, \* TravelAgentLoop: prompt_histories
  llm_output,     \* TravelAgentLoop: llm_output
  plan,           \* PlanAndSolveAgent.run: plan (Solver.solve: tasks)
  prompts         \* every prompt given to the model client, in order

\* the variables of the programs beside the ReAct agent
peripheral == <<records, max_iteration, iteration, last_code, review_response,
                final_code, prompt_histories, llm_output, plan, prompts>>

vars == <<tools, max_steps, history, current_step, is_success, user_prompt,
          response, final_answer, pc, outcome, replies, invoked, stdout,
          request_ok, registered, runs, stale, thought, peripheral>>

\* the number of model calls of this run that have returned
calls == Len(replies)

\* thought, action = self._parse_output(response): the action
action == ActionContent(response)
\* tool_name, tool_input = self._parse_action(action)
tool_name == ParsedAction[action].name
tool_input == ParsedAction[action].input

\* ReActAgent.__init__, and the values the variables of run have before a run
AgentInit ==
  /\ max_steps \in 0..MaxSteps
  /\ history = <<>>
  /\ current_step = 0
  /\ is_success = FALSE
  /\ user_prompt = <<>>
  /\ response = <<>>
  /\ final_answer = None
  /\ pc = "idle"
  /\ outcome = "none"
  /\ replies = <<>>
  /\ invoked = <<>>
  /\ stdout = <<>>
  /\ request_ok = TRUE
  /\ runs = 0
  /\ stale = FALSE
  /\ thought = None

\* the programs beside the ReAct agent have not been started
PeripheralInit ==
  /\ records = <<>>
  /\ max_iteration = 0
  /\ iteration = 0
  /\ last_code = None
  /\ review_response = <<>>
  /\ final_code = None
  /\ prompt_histories = <<>>
  /\ llm_output = <<>>
  /\ plan = <<>>
  /\ prompts = <<>>

\* the agent of the program: built on the registry with the search tool
Init ==
  /\ tools = MainTools
  /\ registered = MainRegistrations
  /\ AgentInit
  /\ PeripheralInit

\* ------------------------------------------------------------------ the run
\* as Run, without line 49: the history of the run before is kept
RunKeepingHistory ==
  /\ UNCHANGED peripheral
  /\ thought' = None
  /\ pc \in {"idle", "done"}
  /\ runs < MaxRuns
  /\ runs' = runs + 1
  /\ stale' = (history # <<>>)
  /\ history' = history
  /\ current_step' = 0
  /\ is_success' = FALSE
  /\ user_prompt' = <<>>
  /\ response' = <<>>
  /\ final_answer' = None
  /\ outcome' = "none"
  /\ replies' = <<>>
  /\ invoked' = <<>>
  /\ stdout' = <<>>
  /\ request_ok' = TRUE
  /\ pc' = "loop"
  /\ UNCHANGED <<tools, max_steps, registered>>

\* run, lines 49-53: a run starts on a fresh history, whatever ran before
Run ==
  /\ UNCHANGED peripheral
  /\ thought' = None
  /\ pc \in {"idle", "done"}
  /\ runs < MaxRuns
  /\ runs' = runs + 1
  /\ stale' = (history # <<>>)
  /\ history' = <<>>
  /\ current_step' = 0
  /\ is_success' = FALSE
  /\ user_prompt' = <<>>
  /\ response' = <<>>
  /\ final_answer' = None
  /\ outcome' = "none"
  /\ replies' = <<>>
  /\ invoked' = <<>>
  /\ stdout' = <<>>
  /\ request_ok' = TRUE
  /\ pc' = "loop"
  /\ UNCHANGED <<tools, max_steps, registered>>

\* as LoopCond, off by one
LoopCondInclusive == ~is_success /\ current_step <= max_steps

\* while not is_success and current_step < self.max_steps
LoopCond == ~is_success /\ current_step < max_steps

\* the loop is entered: the step is counted and announced, the prompt is
\* built from the history and the model client is called
LoopEnter ==
  /\ UNCHANGED peripheral
  /\ UNCHANGED thought
  /\ pc = "loop"
  /\ LoopCond
  /\ current_step' = current_step + 1
  /\ stdout' = Append(stdout, "step")
  /\ user_prompt' = UserPrompt(history)
  /\ pc' = "think"
  /\ UNCHANGED <<tools, max_steps, history, is_success, response,
                 final_answer, outcome, replies, invoked, request_ok,
                 registered, runs, stale>>

\* the loop is left: run returns, after the message of lines 97-98 when the
\* run did not succeed
LoopExit ==
  /\ UNCHANGED peripheral
  /\ UNCHANGED thought
  /\ pc = "loop"
  /\ ~LoopCond
  /\ pc' = "done"
  /\ outcome' = IF is_success THEN "Finished" ELSE "Aborted"
  /\ stdout' = IF is_success THEN stdout ELSE Append(stdout, "terminated")
  /\ UNCHANGED <<tools, max_steps, history, current_step, is_success,
                 user_prompt, response, final_answer, replies, invoked,
                 request_ok, registered, runs, stale>>

\* the run ends with an exception that nothing in run catches
Raise ==
  /\ pc' = "done"
  /\ outcome' = "Raised"

\* what lines 68-71 print of a reply: the thought and the action, when they
\* are not empty
Parsed(reply) ==
  (IF Falsy(ParsedOutput[reply].thought) THEN <<>> ELSE <<"thought">>)
  \o (IF Falsy(ParsedOutput[reply].action) THEN <<>> ELSE <<"action">>)

\* the model client returns `reply`, and the iteration goes on to the place
\* where it ends or where it calls a tool handler (lines 62-90)
ModelReply(reply) ==
  /\ UNCHANGED peripheral
  /\ thought' = (IF Falsy(reply) THEN thought ELSE ParsedOutput[reply].thought)
  /\ pc = "think"
  /\ response' = reply
  /\ replies' = Append(replies, reply)
  /\ UNCHANGED <<tools, max_steps, current_step, user_prompt, registered, runs, stale>>
  /\ IF Falsy(reply)
     THEN \* if not response: break, and the message of lines 97-98
          /\ pc' = "done"
          /\ outcome' = "Aborted"
          /\ stdout' = stdout \o <<"llm_failed", "terminated">>
          /\ UNCHANGED <<history, is_success, final_answer, invoked>>
     ELSE LET action_ == ParsedOutput[reply].action
              parsed  == ParsedAction[action_]
          IN  IF action_ = None
              THEN \* action.startswith on None: AttributeError
                   /\ Raise
                   /\ stdout' = stdout \o Parsed(reply)
                   /\ UNCHANGED <<history, is_success, final_answer, invoked>>
              ELSE IF StartsWithFinish(action_)
              THEN IF FinishMatch(action_) = None
                   THEN \* re.match(...) is None, .group(1): AttributeError
                        /\ Raise
                        /\ stdout' = stdout \o Parsed(reply)
                        /\ UNCHANGED <<history, is_success, final_answer, invoked>>
                   ELSE /\ final_answer' = FinishMatch(action_)
                        /\ is_success' = TRUE
                        /\ pc' = "done"
                        /\ outcome' = "Finished"
                        /\ stdout' = stdout \o Parsed(reply) \o <<"final_answer">>
                        /\ UNCHANGED <<history, invoked>>
              ELSE IF Falsy(parsed.name) \/ Falsy(parsed.input)
              THEN \* continue
                   /\ pc' = "loop"
                   /\ stdout' = stdout \o Parsed(reply)
                   /\ UNCHANGED <<history, is_success, final_answer, outcome, invoked>>
              ELSE IF getTool(tools, parsed.name) = NoFunc
              THEN /\ history' = history \o
                         <<ActionEntry(action_),
                           ObservationEntry(NotFoundObservation(parsed.name))>>
                   /\ pc' = "loop"
                   /\ stdout' = stdout \o Parsed(reply) \o <<"call", "observation">>
                   /\ UNCHANGED <<is_success, final_answer, outcome, invoked>>
              ELSE \* tool_function(tool_input) is called
                   /\ invoked' = Append(invoked,
                         [step |-> current_step, name |-> parsed.name,
                          func |-> getTool(tools, parsed.name),
                          input |-> parsed.input, result |-> Running])
                   /\ pc' = "tool"
                   /\ stdout' = stdout \o Parsed(reply) \o <<"call">>
                   /\ UNCHANGED <<history, is_success, final_answer, outcome>>

\* as ToolReturn, with an assignment in the place of the two appends
ToolReturnReplacing(observation) ==
  /\ UNCHANGED peripheral
  /\ UNCHANGED thought
  /\ pc = "tool"
  /\ invoked' = [invoked EXCEPT ![Len(invoked)].result = observation]
  /\ history' = <<ActionEntry(action), ObservationEntry(observation)>>
  /\ stdout' = Append(stdout, "observation")
  /\ pc' = "loop"
  /\ UNCHANGED <<tools, max_steps, current_step, is_success, user_prompt,
                 response, final_answer, outcome, replies, request_ok,
                 registered, runs, stale>>

\* the handler returns `observation`: lines 92-95
ToolReturn(observation) ==
  /\ UNCHANGED peripheral
  /\ UNCHANGED thought
  /\ pc = "tool"
  /\ invoked' = [invoked EXCEPT ![Len(invoked)].result = observation]
  /\ history' = history \o <<ActionEntry(action), ObservationEntry(observation)>>
  /\ stdout' = Append(stdout, "observation")
  /\ pc' = "loop"
  /\ UNCHANGED <<tools, max_steps, current_step, is_success, user_prompt,
                 response, final_answer, outcome, replies, request_ok,
                 registered, runs, stale>>

\* the handler raises: run has no try around line 90
ToolRaise ==
  /\ UNCHANGED peripheral
  /\ UNCHANGED thought
  /\ pc = "tool"
  /\ invoked' = [invoked EXCEPT ![Len(invoked)].result = Raised]
  /\ Raise
  /\ UNCHANGED <<tools, max_steps, history, current_step, is_success,
                 user_prompt, response, final_answer, replies, stdout,
                 request_ok, registered, runs, stale>>

\* response = self.llm_client.think(user_prompt, system_prompt)
Think ==
  \E stream \in Streams :
     /\ ModelReply(think(stream))
     /\ request_ok' = stream.ok
Observe == \E observation \in HandlerReturns : ToolReturn(observation)

Next ==
  \/ Run
  \/ LoopEnter
  \/ LoopExit
  \/ Think
  \/ Observe
  \/ ToolRaise

Spec == Init /\ [][Next]_vars

\* ------------------------------------------------------- the registry alone
\* a tool executor that is being filled: nothing is registered yet
InitTools ==
  /\ tools = <<>>
  /\ registered = <<>>
  /\ AgentInit
  /\ PeripheralInit

\* toolExecutor.registerTool(name, description, func)
RegisterTool(name, description, func) ==
  /\ UNCHANGED peripheral
  /\ UNCHANGED thought
  /\ pc = "idle"
  /\ Len(registered) < MaxRegs
  /\ tools' = registerTool(tools, name, description, func)
  /\ registered' = Append(registered,
         [name |-> name, description |-> description, func |-> func])
  /\ UNCHANGED <<max_steps, history, current_step, is_success, user_prompt,
                 response, final_answer, pc, outcome, replies, invoked,
                 stdout, request_ok, runs, stale>>

NextTools ==
  \E name \in ToolNames, description \in Descriptions, func \in Funcs :
     RegisterTool(name, description, func)

SpecTools == InitTools /\ [][NextTools]_vars

\* ------------------------------------------------------------------- types
TypeOK ==
  /\ max_steps \in 0..MaxSteps
  /\ current_step \in 0..MaxSteps
  /\ is_success \in BOOLEAN
  /\ pc \in {"idle", "loop", "think", "tool", "done"}
  /\ outcome \in {"none", "Finished", "Aborted", "Raised"}
  /\ response \in Replies \cup {ThinkError}
  /\ request_ok \in BOOLEAN
  /\ runs \in 0..MaxRuns

\* -------------------------------------------------- the peripheral agent
\* TravelAgentLoop, lines 109-113: the reply is cut down to its first
\* Thought/Action pair.  The pattern starts at the leftmost "Thought:" that
\* has an "Action:" after it, runs lazily to that "Action:" and then lazily
\* to the first place followed by "\n", white space and a marker (or to the
\* end of the text).
Truncate(llm_output_) ==
  LET n  == Len(llm_output_)
      ts == {i \in 1..n : llm_output_[i] = TH /\ \E j \in (i + 1)..n : llm_output_[j] = AC}
  IN  IF ts = {} THEN llm_output_
      ELSE LET i == MinOf(ts)
               j == MinOf({x \in (i + 1)..n : llm_output_[x] = AC})
               stops == {e \in j..n :
                           \/ e = n
                           \/ /\ e + 1 <= n
                              /\ llm_output_[e + 1] = NL
                              /\ \E q \in (e + 2)..n :
                                    /\ llm_output_[q] \in Markers
                                    /\ \A w \in (e + 2)..(q - 1) : llm_output_[w] \in Whitespace}
               truncated == Strip(SubSeq(llm_output_, i, MinOf(stops)))
           IN  IF truncated # Strip(llm_output_) THEN truncated ELSE llm_output_

\* ------------------------------------------------- the parser on its own
\* the variables that only the ReAct agent uses, beside its thought
react_only == <<tools, registered, max_steps, current_step, is_success,
                user_prompt, request_ok, runs, stale, stdout>>

\* the ReAct agent has not been built
ReactInit ==
  /\ tools = <<>>
  /\ registered = <<>>
  /\ max_steps = 0
  /\ current_step = 0
  /\ is_success = FALSE
  /\ user_prompt = <<>>
  /\ request_ok = TRUE
  /\ runs = 0
  /\ stale = FALSE
  /\ stdout = <<>>

\* the texts _parse_output is given: every text of up to MaxLen tokens
ParseTokens == {TH, AC, NL, SP, "t"}
Texts == UNION {[1..n -> ParseTokens] : n \in 0..MaxLen}

\* a reply is in and line 67 is next
InitParse ==
  /\ response \in Texts
  /\ thought = None
  /\ pc = "parse"
  /\ outcome = "none"
  /\ history = <<>>
  /\ final_answer = None
  /\ replies = <<>>
  /\ invoked = <<>>
  /\ ReactInit
  /\ PeripheralInit

\* thought, action = self._parse_output(response)
ParseOutput ==
  /\ pc = "parse"
  /\ thought' = _parse_output(response).thought
  /\ pc' = "parsed"
  /\ UNCHANGED <<response, outcome, history, final_answer, replies, invoked,
                 react_only, peripheral>>

NextParse == ParseOutput

SpecParse == InitParse /\ [][NextParse]_vars

\* ------------------------------------------------------------------ Memory
\* Memory.add_record: self.records.append({"type": ..., "content": ...})
add_record(records_, record_type, content) ==
  Append(records_, [type |-> record_type, content |-> content])

\* as get_last_execution, without the test of the type
get_last_record(records_) ==
  IF records_ = <<>> THEN None ELSE records_[Len(records_)].content

\* Memory.get_last_execution: the records are gone through from the last to
\* the first, the content of the first one of type "execution" is returned
get_last_execution(records_) ==
  LET RECURSIVE scan(_)
      scan(n) == IF n = 0 THEN None
                 ELSE IF records_[n].type = "execution" THEN records_[n].content
                 ELSE scan(n - 1)
  IN  scan(Len(records_))

\* the types and contents add_record is called with
RecordTypes == {"execution", "reflection", "note"}
Contents == {<<>>, <<"c1">>, <<"c2">>}

\* the variables a Memory on its own leaves alone
memory_rest == <<react_only, thought, response, outcome, history, final_answer,
                 replies, invoked, max_iteration, iteration, review_response,
                 final_code, prompt_histories, llm_output, plan, prompts>>

\* Memory.__init__
InitMemory ==
  /\ pc = "idle"
  /\ response = <<>>
  /\ outcome = "none"
  /\ history = <<>>
  /\ final_answer = None
  /\ replies = <<>>
  /\ invoked = <<>>
  /\ thought = None
  /\ ReactInit
  /\ PeripheralInit

\* memory.add_record(record_type, content)
AddRecord(record_type, content) ==
  /\ Len(records) < MaxRecords
  /\ records' = add_record(records, record_type, content)
  /\ pc' = "added"
  /\ UNCHANGED <<last_code, memory_rest>>

\* last_code = memory.get_last_execution()
GetLastExecution ==
  /\ last_code' = get_last_execution(records)
  /\ pc' = "got"
  /\ UNCHANGED <<records, memory_rest>>

NextMemory ==
  \/ \E record_type \in RecordTypes, content \in Contents :
        AddRecord(record_type, content)
  \/ GetLastExecution

SpecMemory == InitMemory /\ [][NextMemory]_vars

\* --------------------------------------------------------- ReflectionAgent
\* "无需改进", the words a review says when it asks for no change
NoImprovement == "no-improvement-needed"

\* what the model client returns for code and for a review
Codes == {<<>>, <<"c1">>, <<"c2">>}
Reviews == {<<>>, <<"fb">>, <<"fb", NoImprovement>>}

\* the three prompt templates, filled in
CodeGenPrompt == <<"codegen">>
ReviewPrompt(code) == <<"review">> \o code
RefactorPrompt(last_code_attempt, feedback) ==
  <<"refactor">> \o last_code_attempt \o <<"feedback">> \o feedback

\* the variables ReflectionAgent.run leaves alone
reflection_rest == <<react_only, thought, history, final_answer, invoked,
                     prompt_histories, llm_output, plan>>

\* ReflectionAgent.__init__
InitReflection ==
  /\ max_iteration \in 0..MaxIterations
  /\ records = <<>>
  /\ iteration = 0
  /\ last_code = None
  /\ review_response = <<>>
  /\ final_code = None
  /\ prompts = <<>>
  /\ prompt_histories = <<>>
  /\ llm_output = <<>>
  /\ plan = <<>>
  /\ pc = "idle"
  /\ response = <<>>
  /\ outcome = "none"
  /\ history = <<>>
  /\ final_answer = None
  /\ replies = <<>>
  /\ invoked = <<>>
  /\ thought = None
  /\ ReactInit

\* run, lines 66-69: the prompt for the first code is built and the model
\* client is called
ReflectionRun ==
  /\ pc = "idle"
  /\ prompts' = Append(prompts, CodeGenPrompt)
  /\ pc' = "codegen"
  /\ UNCHANGED <<records, max_iteration, iteration, last_code, review_response,
                 final_code, response, replies, outcome, reflection_rest>>

\* lines 69-70: the first code is in and is recorded
CodeGenReply(code) ==
  /\ pc = "codegen"
  /\ response' = code
  /\ replies' = Append(replies, code)
  /\ records' = add_record(records, "execution", code)
  /\ iteration' = 0
  /\ pc' = "for"
  /\ UNCHANGED <<max_iteration, last_code, review_response, final_code,
                 prompts, outcome, reflection_rest>>

\* lines 93-96: run returns the last code recorded
Return ==
  /\ final_code' = get_last_execution(records)
  /\ pc' = "done"
  /\ outcome' = "Returned"

\* lines 72-80: an iteration is entered; without code to review the loop is
\* left, or else the review is asked for
ForEnter ==
  /\ pc = "for"
  /\ iteration < max_iteration
  /\ last_code' = get_last_execution(records)
  /\ UNCHANGED <<records, max_iteration, iteration, review_response, response,
                 replies, reflection_rest>>
  /\ IF Falsy(get_last_execution(records))
     THEN /\ Return
          /\ UNCHANGED prompts
     ELSE /\ prompts' = Append(prompts, ReviewPrompt(get_last_execution(records)))
          /\ pc' = "review"
          /\ UNCHANGED <<final_code, outcome>>

\* line 72: the iterations are used up
ForExit ==
  /\ pc = "for"
  /\ iteration >= max_iteration
  /\ Return
  /\ UNCHANGED <<records, max_iteration, iteration, last_code, review_response,
                 prompts, response, replies, reflection_rest>>

\* as ReviewReply, with lines 81-83 after line 86: the review is recorded
\* before it is looked at
ReviewReplyRecorded(review) ==
  /\ pc = "review"
  /\ review_response' = review
  /\ replies' = Append(replies, review)
  /\ records' = add_record(records, "reflection", review)
  /\ UNCHANGED <<max_iteration, iteration, last_code, response, reflection_rest>>
  /\ IF NoImprovement \in Range(review)
     THEN /\ Return
          /\ UNCHANGED prompts
     ELSE /\ prompts' = Append(prompts, RefactorPrompt(last_code, review))
          /\ pc' = "refactor"
          /\ UNCHANGED <<final_code, outcome>>

\* lines 80-89: the review is in; a review that asks for no change ends the
\* loop, any other is recorded and the new code is asked for
ReviewReply(review) ==
  /\ pc = "review"
  /\ review_response' = review
  /\ replies' = Append(replies, review)
  /\ UNCHANGED <<max_iteration, iteration, last_code, response, reflection_rest>>
  /\ IF NoImprovement \in Range(review)
     THEN /\ Return
          /\ UNCHANGED <<records, prompts>>
     ELSE /\ records' = add_record(records, "reflection", review)
          /\ prompts' = Append(prompts, RefactorPrompt(last_code, review))
          /\ pc' = "refactor"
          /\ UNCHANGED <<final_code, outcome>>

\* lines 89-91: the new code is in and is recorded, the iteration is over
RefactorReply(code) ==
  /\ pc = "refactor"
  /\ replies' = Append(replies, code)
  /\ records' = add_record(records, "execution", code)
  /\ iteration' = iteration + 1
  /\ pc' = "for"
  /\ UNCHANGED <<max_iteration, last_code, review_response, final_code,
                 prompts, response, outcome, reflection_rest>>

NextReflection ==
  \/ ReflectionRun
  \/ \E code \in Codes : CodeGenReply(code)
  \/ ForEnter
  \/ ForExit
  \/ \E review \in Reviews : ReviewReply(review)
  \/ \E code \in Codes : RefactorReply(code)

\* every call of the model client returns, and run goes on until it returns
SpecReflection ==
  InitReflection /\ [][NextReflection]_vars /\ WF_vars(NextReflection)

\* -------------------------------------------------------- PlanAndSolveAgent
\* the fences of a code block (three backquotes, with and without the word
\* python), the comma, and the string literals of a plan
FencePy == "fence:python"
Fence == "fence"
Comma == ","
StepLiterals == {"'x'", "'y'"}

\* the value of a string literal
Unquote(literal) == IF literal = "'x'" THEN <<"x">> ELSE <<"y">>

\* ast.literal_eval(response_content), followed by the isinstance test and the
\* except clauses of Planer.plan: the list, when the text is the literal of a
\* list of strings (a comma may follow the last one, white space may stand
\* between the tokens), and [] for every other text, be it another value or
\* no expression at all.  The texts hold no nested list.
LiteralEval(content) ==
  LET n     == Len(content)
      inner == SelectSeq(SubSeq(content, 2, n - 1), LAMBDA t : t \notin Whitespace)
      m     == Len(inner)
      isList == /\ n >= 2
                /\ content[1] = LB
                /\ content[n] = RB
                /\ \A k \in 1..m :
                      IF k % 2 = 1 THEN inner[k] \in StepLiterals
                                   ELSE inner[k] = Comma
  IN  IF isList THEN [k \in 1..((m + 1) \div 2) |-> Unquote(inner[2 * k - 1])]
      ELSE <<>>

\* Planer.plan, lines 30-39:
\* response.split(FencePy)[1].split(Fence)[0].strip(), evaluated; a reply
\* without the opening fence gives IndexError and so []
ParsePlan(reply) ==
  LET opens == {i \in 1..Len(reply) : reply[i] = FencePy}
  IN  IF opens = {} THEN <<>>
      ELSE LET after  == SubSeq(reply, MinOf(opens) + 1, Len(reply))
               stops  == {i \in 1..Len(after) : after[i] \in {FencePy, Fence}}
               stop   == IF stops = {} THEN Len(after) + 1 ELSE MinOf(stops)
           IN  LiteralEval(Strip(SubSeq(after, 1, stop - 1)))

\* the literal of a list, as a model writes it
ListLiteral(steps) ==
  LET RECURSIVE items(_)
      items(k) == IF k = 0 THEN <<>>
                  ELSE IF k = 1 THEN <<steps[1]>>
                  ELSE items(k - 1) \o <<Comma, SP, steps[k]>>
  IN  <<LB>> \o items(Len(steps)) \o <<RB>>
Fenced(content) == <<"t", NL, FencePy, NL>> \o content \o <<NL, Fence>>

\* the replies of the model client to the planning prompt: every list of up
\* to MaxPlan steps in a code block, and replies that are not as asked for
PlanLists == UNION {[1..n -> StepLiterals] : n \in 0..MaxPlan}
PlanReplies ==
  {Fenced(ListLiteral(l)) : l \in PlanLists}
  \cup {<<>>,
        ThinkError,
        ListLiteral(<<"'x'", "'y'">>),                         \* no code block
        <<Fence, NL>> \o ListLiteral(<<"'x'">>) \o <<NL, Fence>>, \* plain fence
        <<FencePy, NL>> \o ListLiteral(<<"'x'", "'y'">>),      \* block not closed
        Fenced(<<"'x'">>),                                     \* a string
        Fenced(<<LB, "'x'">>),                                 \* no expression
        Fenced(<<LB, "'y'", Comma, RB>>),                      \* comma at the end
        Fenced(ListLiteral(<<"'x'">>)) \o <<NL>> \o Fenced(ListLiteral(<<"'y'", "'y'">>))}

\* the replies of the model client to a step
StepReplies == {<<>>, <<"r1">>, <<"r2">>}

\* f"{i+1}"
Digits == <<"1", "2", "3", "4", "5">>

\* PLANER_TOOL_PROMPT and SOLVER_TOOL_PROMPT, filled in
PlanPrompt == <<"plan", "Question:">> \o Question
SolverPrompt(tasks, history_, step) ==
  LET RECURSIVE flat(_)
      flat(k) == IF k = 0 THEN <<>> ELSE flat(k - 1) \o tasks[k] \o <<Comma>>
  IN  <<"solve", "Question:">> \o Question \o <<"Plan:">> \o flat(Len(tasks))
      \o <<"History:">> \o history_ \o <<"Step:">> \o step

\* f"步骤{i+1}: {step}\n结果:{response}\n\n"
HistoryEntry(i, step, reply) ==
  <<"Step", Digits[i + 1], ":", SP>> \o step \o <<NL, "Result:">> \o reply \o <<NL, NL>>

\* the variables PlanAndSolveAgent.run leaves alone
plan_rest == <<react_only, thought, invoked, records, max_iteration, last_code,
               review_response, final_code, prompt_histories, llm_output>>

\* PlanAndSolveAgent.__init__
InitPlan ==
  /\ pc = "idle"
  /\ response = <<>>
  /\ outcome = "none"
  /\ history = <<>>
  /\ final_answer = None
  /\ replies = <<>>
  /\ invoked = <<>>
  /\ thought = None
  /\ ReactInit
  /\ PeripheralInit

\* run, line 95, and plan, lines 27-28: the planner calls the model client
PlanRun ==
  /\ pc = "idle"
  /\ prompts' = Append(prompts, PlanPrompt)
  /\ pc' = "plan"
  /\ UNCHANGED <<plan, iteration, response, replies, history, final_answer,
                 outcome, plan_rest>>

\* plan, lines 28-39, run, lines 96-103, and solve up to its first call: the
\* reply is parsed; run returns on an empty plan, or else the solver starts
PlanReply(reply) ==
  /\ pc = "plan"
  /\ replies' = Append(replies, reply)
  /\ plan' = ParsePlan(reply)
  /\ iteration' = 0
  /\ history' = <<>>
  /\ UNCHANGED <<final_answer, plan_rest>>
  /\ IF ParsePlan(reply) = <<>>
     THEN /\ response' = reply
          /\ pc' = "done"
          /\ outcome' = "NoPlan"
          /\ UNCHANGED prompts
     ELSE /\ response' = <<>>
          /\ prompts' = Append(prompts,
                 SolverPrompt(ParsePlan(reply), <<>>, ParsePlan(reply)[1]))
          /\ pc' = "solve"
          /\ UNCHANGED outcome

\* as SolveReply, with = in the place of += at line 76
SolveReplyOverwriting(reply) ==
  /\ pc = "solve"
  /\ response' = reply
  /\ replies' = Append(replies, reply)
  /\ history' = HistoryEntry(iteration, plan[iteration + 1], reply)
  /\ UNCHANGED <<plan, plan_rest>>
  /\ IF iteration + 1 < Len(plan)
     THEN /\ iteration' = iteration + 1
          /\ prompts' = Append(prompts,
                 SolverPrompt(plan, history', plan[iteration + 2]))
          /\ UNCHANGED <<pc, final_answer, outcome>>
     ELSE /\ final_answer' = reply
          /\ pc' = "done"
          /\ outcome' = "Solved"
          /\ UNCHANGED <<iteration, prompts>>

\* solve, lines 72-80: the reply to a step is in and is added to the history;
\* the next step is asked for, or solve returns the reply to the last one
SolveReply(reply) ==
  /\ pc = "solve"
  /\ response' = reply
  /\ replies' = Append(replies, reply)
  /\ history' = history \o HistoryEntry(iteration, plan[iteration + 1], reply)
  /\ UNCHANGED <<plan, plan_rest>>
  /\ IF iteration + 1 < Len(plan)
     THEN /\ iteration' = iteration + 1
          /\ prompts' = Append(prompts,
                 SolverPrompt(plan, history', plan[iteration + 2]))
          /\ UNCHANGED <<pc, final_answer, outcome>>
     ELSE /\ final_answer' = reply
          /\ pc' = "done"
          /\ outcome' = "Solved"
          /\ UNCHANGED <<iteration, prompts>>

NextPlan ==
  \/ PlanRun
  \/ \E reply \in PlanReplies : PlanReply(reply)
  \/ \E reply \in StepReplies : SolveReply(reply)

SpecPlan == InitPlan /\ [][NextPlan]_vars

\* ---------------------------------------------------------- TravelAgentLoop
\* for i in range(5)
TravelRounds == 5

\* the parentheses of a tool call, the names of the two tools, and the
\* arguments name="value" the pattern of line 137 finds
LP == "("
RP == ")"
TravelWords == WordTokens \cup {"get_weather", "get_attraction"}
KwTokens == {"city=x", "weather=y"}
KeyOf(kw) == IF kw = "city=x" THEN "city" ELSE "weather"

\* available_tools, with the parameters of each function
available_tools == {<<"get_weather">>, <<"get_attraction">>}
Parameters(name) ==
  IF name = <<"get_weather">> THEN {"city"} ELSE {"city", "weather"}

\* re.search(r"Action: (.*)", llm_output, re.DOTALL), group(1).strip(): the
\* text after the leftmost "Action:" that a space follows; None without one
TravelAction(text) ==
  LET starts == {i \in 1..(Len(text) - 1) : text[i] = AC /\ text[i + 1] = SP}
  IN  IF starts = {} THEN None
      ELSE Strip(SubSeq(text, MinOf(starts) + 2, Len(text)))

\* re.search(r"(\w+)\(", action_str): the word that stands right before the
\* leftmost "(" that follows a word; None without one
TravelToolName(action_str) ==
  LET opens == {q \in 2..Len(action_str) :
                  action_str[q] = LP /\ action_str[q - 1] \in TravelWords}
  IN  IF opens = {} THEN None
      ELSE LET q == MinOf(opens)
               b == MinOf({i \in 1..(q - 1) :
                             \A j \in i..(q - 1) : action_str[j] \in TravelWords})
           IN  SubSeq(action_str, b, q - 1)

\* re.search(r"\((.*)\)", action_str): from the leftmost "(" that has a ")"
\* after it on its line to the last such ")"; None without one
TravelArgs(action_str) ==
  LET n      == Len(action_str)
      Closes(q) == {c \in (q + 1)..n :
                      /\ action_str[c] = RP
                      /\ \A j \in (q + 1)..(c - 1) : action_str[j] # NL}
      opens  == {q \in 1..n : action_str[q] = LP /\ Closes(q) # {}}
  IN  IF opens = {} THEN None
      ELSE SubSeq(action_str, MinOf(opens) + 1, MaxOf(Closes(MinOf(opens))) - 1)

\* dict(re.findall(r'(\w+)="([^"]*)"', args_str)): the arguments found
TravelKwargs(args_str) == SelectSeq(args_str, LAMBDA t : t \in KwTokens)

\* the first entry of prompt_histories, and the two texts the loop writes
UserRequest == <<"Request:", "city">>
ObservationStr(observation) == <<OB, SP>> \o observation
CorrectiveObservation == ObservationStr(<<"Error:no-action-parsed">>)
UndefinedTool(name) == <<"Error:undefined-tool", "'">> \o name \o <<"'">>

\* the replies of the model client to the travel agent
TravelReplies == {
  T0,                                                         \* no Action
  <<TH, SP, "t", NL, AC, NL, TH, SP, "t">>,                   \* "Action:" alone, text after it
  T0 \o <<AC, "s">>,                                          \* Action:s
  T0 \o <<AC, SP, "get_weather", LP, "city=x", RP>>,
  T0 \o <<AC, SP, "u", LP, "city=x", RP>>,                    \* no such tool
  T0 \o <<AC, SP, "get_weather", LP, RP>>,                    \* argument missing
  T0 \o <<AC, SP, "get_weather", LP, "city=x">>,              \* no ")"
  T0 \o <<AC, SP, "s">>,                                      \* no "("
  T0 \o <<AC, SP, FI, LB, "a", RB>>,
  T0 \o <<AC, SP, FI>>,
  T0 \o <<AC, SP, "get_weather", LP, "city=x", RP, NL>>
     \o T0 \o <<AC, SP, FI, LB, "a", RB>>                     \* two pairs
}

\* what a tool of the travel agent returns
TravelReturns == {<<"p">>}

\* the variables TravelAgentLoop leaves alone
travel_rest == <<react_only, thought, response, history, records,
                 max_iteration, last_code, review_response, final_code, plan>>

\* before TravelAgentLoop is called
InitTravel ==
  /\ pc = "idle"
  /\ response = <<>>
  /\ outcome = "none"
  /\ history = <<>>
  /\ final_answer = None
  /\ replies = <<>>
  /\ invoked = <<>>
  /\ thought = None
  /\ ReactInit
  /\ PeripheralInit

\* lines 97-100
TravelStart ==
  /\ pc = "idle"
  /\ prompt_histories' = <<UserRequest>>
  /\ iteration' = 0
  /\ pc' = "loop"
  /\ UNCHANGED <<llm_output, prompts, replies, invoked, final_answer, outcome,
                 travel_rest>>

\* lines 103-108: a round is entered, the prompt is built from the history and
\* the model client is called
TravelLoopEnter ==
  /\ pc = "loop"
  /\ iteration < TravelRounds
  /\ prompts' = Append(prompts, Join(prompt_histories))
  /\ pc' = "think"
  /\ UNCHANGED <<prompt_histories, iteration, llm_output, replies, invoked,
                 final_answer, outcome, travel_rest>>

\* the rounds are used up
TravelLoopExit ==
  /\ pc = "loop"
  /\ iteration >= TravelRounds
  /\ pc' = "done"
  /\ outcome' = "Exhausted"
  /\ UNCHANGED <<prompt_histories, iteration, llm_output, prompts, replies,
                 invoked, final_answer, travel_rest>>

\* as TravelReply, without lines 119-124: a reply without an Action is taken
\* into the history and nothing is said about it
TravelReplySilent(reply) ==
  /\ pc = "think"
  /\ replies' = Append(replies, reply)
  /\ llm_output' = Truncate(reply)
  /\ UNCHANGED <<prompts, travel_rest>>
  /\ LET out        == Truncate(reply)
         action_str == TravelAction(out)
         name       == TravelToolName(action_str)
         args_str   == TravelArgs(action_str)
     IN  IF action_str = None
         THEN /\ prompt_histories' = prompt_histories \o <<out>>
              /\ iteration' = iteration + 1
              /\ pc' = "loop"
              /\ UNCHANGED <<invoked, final_answer, outcome>>
         ELSE IF StartsWithFinish(action_str)
         THEN /\ prompt_histories' = Append(prompt_histories, out)
              /\ IF FinishMatch(action_str) = None
                 THEN /\ Raise
                      /\ UNCHANGED final_answer
                 ELSE /\ final_answer' = FinishMatch(action_str)
                      /\ pc' = "done"
                      /\ outcome' = "Finished"
              /\ UNCHANGED <<iteration, invoked>>
         ELSE IF name = None \/ args_str = None
         THEN /\ prompt_histories' = Append(prompt_histories, out)
              /\ Raise
              /\ UNCHANGED <<iteration, invoked, final_answer>>
         ELSE IF name \notin available_tools
         THEN /\ prompt_histories' = prompt_histories \o
                    <<out, ObservationStr(UndefinedTool(name))>>
              /\ iteration' = iteration + 1
              /\ pc' = "loop"
              /\ UNCHANGED <<invoked, final_answer, outcome>>
         ELSE /\ prompt_histories' = Append(prompt_histories, out)
              /\ invoked' = Append(invoked,
                    [step |-> iteration + 1, name |-> name,
                     input |-> TravelKwargs(args_str), result |-> Running])
              /\ pc' = "tool"
              /\ UNCHANGED <<iteration, final_answer, outcome>>

\* lines 108-140: the reply is in; it is cut down to its first pair, taken into
\* the history and acted on, up to the end of the round or the call of a tool
TravelReply(reply) ==
  /\ pc = "think"
  /\ replies' = Append(replies, reply)
  /\ llm_output' = Truncate(reply)
  /\ UNCHANGED <<prompts, travel_rest>>
  /\ LET out        == Truncate(reply)
         action_str == TravelAction(out)
         name       == TravelToolName(action_str)
         args_str   == TravelArgs(action_str)
     IN  IF action_str = None
         THEN \* no Action: the corrective Observation, continue
              /\ prompt_histories' = prompt_histories \o <<out, CorrectiveObservation>>
              /\ iteration' = iteration + 1
              /\ pc' = "loop"
              /\ UNCHANGED <<invoked, final_answer, outcome>>
         ELSE IF StartsWithFinish(action_str)
         THEN /\ prompt_histories' = Append(prompt_histories, out)
              /\ IF FinishMatch(action_str) = None
                 THEN \* re.match(...) is None, .group(1): AttributeError
                      /\ Raise
                      /\ UNCHANGED final_answer
                 ELSE /\ final_answer' = FinishMatch(action_str)
                      /\ pc' = "done"
                      /\ outcome' = "Finished"
              /\ UNCHANGED <<iteration, invoked>>
         ELSE IF name = None \/ args_str = None
         THEN \* re.search(...) is None, .group(1): AttributeError
              /\ prompt_histories' = Append(prompt_histories, out)
              /\ Raise
              /\ UNCHANGED <<iteration, invoked, final_answer>>
         ELSE IF name \notin available_tools
         THEN /\ prompt_histories' = prompt_histories \o
                    <<out, ObservationStr(UndefinedTool(name))>>
              /\ iteration' = iteration + 1
              /\ pc' = "loop"
              /\ UNCHANGED <<invoked, final_answer, outcome>>
         ELSE \* available_tools[tool_name](**kwargs) is called
              /\ prompt_histories' = Append(prompt_histories, out)
              /\ invoked' = Append(invoked,
                    [step |-> iteration + 1, name |-> name,
                     input |-> TravelKwargs(args_str), result |-> Running])
              /\ pc' = "tool"
              /\ UNCHANGED <<iteration, final_answer, outcome>>

\* the arguments of the call under way are the parameters of the function
ArgumentsFit ==
  {KeyOf(invoked[Len(invoked)].input[k]) : k \in 1..Len(invoked[Len(invoked)].input)}
    = Parameters(invoked[Len(invoked)].name)

\* lines 140-147: the tool returns, the Observation is taken into the history
TravelToolReturn(observation) ==
  /\ pc = "tool"
  /\ ArgumentsFit
  /\ invoked' = [invoked EXCEPT ![Len(invoked)].result = observation]
  /\ prompt_histories' = Append(prompt_histories, ObservationStr(observation))
  /\ iteration' = iteration + 1
  /\ pc' = "loop"
  /\ UNCHANGED <<llm_output, prompts, replies, final_answer, outcome, travel_rest>>

\* line 140 raises: TypeError when the arguments do not fit, or an exception
\* that the tool does not catch
TravelToolRaise ==
  /\ pc = "tool"
  /\ invoked' = [invoked EXCEPT ![Len(invoked)].result = Raised]
  /\ Raise
  /\ UNCHANGED <<prompt_histories, iteration, llm_output, prompts, replies,
                 final_answer, travel_rest>>

NextTravel ==
  \/ TravelStart
  \/ TravelLoopEnter
  \/ TravelLoopExit
  \/ \E reply \in TravelReplies : TravelReply(reply)
  \/ \E observation \in TravelReturns : TravelToolReturn(observation)
  \/ TravelToolRaise

SpecTravel == InitTravel /\ [][NextTravel]_vars

\* ------------------------------------------------- the words of the claims
\* the iteration of step current_step is over: its reply was handled and no
\* handler is running
IterationOver == calls >= 1 /\ pc \in {"loop", "done"}

\* the handler invocations of the iteration of step current_step
InvokedNow == SelectSeq(invoked, LAMBDA e : e.step = current_step)

\* the Action section of a reply: the text after the first marker, trimmed
HasAction(reply) == AC \in Range(reply)
ActionSection(reply) ==
  Strip(SubSeq(reply, MinOf({i \in 1..Len(reply) : reply[i] = AC}) + 1, Len(reply)))

\* Finish followed by a bracketed span
IsFinishDirective(a) ==
  Len(a) >= 3 /\ a[1] = FI /\ a[2] = LB /\ \E j \in 3..Len(a) : a[j] = RB

\* name[argument]: an identifier, "[", and a "]" somewhere after it
NameEnd(a) == MaxOf({k \in 0..Len(a) : \A i \in 1..k : a[i] \in WordTokens})
IsToolCall(a) ==
  /\ ~IsFinishDirective(a)
  /\ NameEnd(a) >= 1
  /\ NameEnd(a) + 1 <= Len(a)
  /\ a[NameEnd(a) + 1] = LB
  /\ \E j \in (NameEnd(a) + 2)..Len(a) : a[j] = RB
CallName(a) == SubSeq(a, 1, NameEnd(a))
\* the text between the first "[" and the last "]"
CallArgument(a) ==
  SubSeq(a, MinOf({i \in 1..Len(a) : a[i] = LB}) + 1,
            MaxOf({i \in 1..Len(a) : a[i] = RB}) - 1)

IsUnparseable(reply) ==
  \/ ~HasAction(reply)
  \/ /\ ~IsFinishDirective(ActionSection(reply))
     /\ ~IsToolCall(ActionSection(reply))

\* the trajectory ends with the Action a and one Observation of text o
EndsWithPair(a, o) ==
  /\ Len(history) >= 2
  /\ history[Len(history) - 1] = ActionEntry(a)
  /\ history[Len(history)] = ObservationEntry(o)

\* ------------------------------------------------------------------ claims
\* C1: in every reachable state of run, whatever the model replies and for
\* every max_steps >= 0, the step counter is at most max_steps and so is the
\* number of model calls issued so far in the run (the calls that returned
\* and, while the agent waits for the model, the call that is under way).
C1_StepBound ==
  /\ current_step <= max_steps
  /\ calls <= max_steps
  /\ (pc = "think" => calls + 1 <= max_steps)

\* a run that used up a budget of at least two steps
C1_Witness ==
  /\ pc = "done"
  /\ outcome = "Aborted"
  /\ max_steps >= 2
  /\ current_step = max_steps
  /\ calls = max_steps

\* C2: with max_steps = N and a model client that never emits Finish and
\* never replies with nothing, run makes exactly N model calls and then ends
\* Aborted (max steps reached): it neither stops earlier nor fails.
C2_StepBudget ==
  (/\ pc = "done"
   /\ \A i \in 1..Len(replies) : replies[i] # <<>> /\ FI \notin Range(replies[i]))
  => (calls = max_steps /\ outcome = "Aborted")

\* C3: a first reply "Thought: T\nAction: Finish[A]" (T any text without a
\* section marker, A any text) ends the run after one model call, Finished
\* with answer A; and once a Finish directive is parsed, the run makes no
\* further model call and invokes no handler.
IsFinishReply(reply) ==
  /\ Len(reply) >= 2 /\ reply[1] = TH /\ reply[2] = SP
  /\ HasAction(reply)
  /\ LET i == MinOf({x \in 1..Len(reply) : reply[x] = AC})
     IN  /\ i >= 4 /\ reply[i - 1] = NL
         /\ \A x \in 3..(i - 2) : reply[x] \notin Markers
         /\ Len(reply) >= i + 4
         /\ reply[i + 1] = SP /\ reply[i + 2] = FI /\ reply[i + 3] = LB
         /\ reply[Len(reply)] = RB
FinishReplyAnswer(reply) ==
  SubSeq(reply, MinOf({x \in 1..Len(reply) : reply[x] = AC}) + 4, Len(reply) - 1)

C3_FirstFinish ==
  (calls >= 1 /\ IsFinishReply(replies[1]))
  => /\ pc = "done"
     /\ outcome = "Finished"
     /\ calls = 1
     /\ final_answer = FinishReplyAnswer(replies[1])
     /\ invoked = <<>>

C3_Finish ==
  /\ []C3_FirstFinish
  /\ [][(is_success /\ is_success') => (replies' = replies /\ invoked' = invoked)]_vars
  /\ [][(~is_success /\ is_success') => (calls' = calls + 1 /\ invoked' = invoked /\ pc' = "done")]_vars

\* a run finished by its first reply, with an answer that holds a "]"
C3_Witness ==
  /\ pc = "done"
  /\ outcome = "Finished"
  /\ calls = 1
  /\ IsFinishReply(replies[1])
  /\ RB \in Range(final_answer)

\* C4: for every reply whose Action is name[argument] with name registered,
\* the iteration invokes that tool's handler exactly once, with exactly the
\* text between the first "[" and the last "]" of the Action, and appends
\* exactly one Observation whose text is what the handler returned.
C4_RegisteredCall ==
  (/\ IterationOver
   /\ HasAction(response)
   /\ IsToolCall(ActionSection(response))
   /\ HasTool(tools, CallName(ActionSection(response))))
  => /\ Len(InvokedNow) = 1
     /\ InvokedNow[1].name = CallName(ActionSection(response))
     /\ InvokedNow[1].input = CallArgument(ActionSection(response))
     /\ InvokedNow[1].result # Raised
        => EndsWithPair(ActionSection(response), InvokedNow[1].result)

\* C5: for a reply whose Action names a tool X that is not registered, the
\* iteration invokes no handler, appends the Action and the "tool X is not
\* defined" Observation for that name, counts one step and goes on to the
\* next iteration.
C5_UnknownTool ==
  (/\ IterationOver
   /\ HasAction(response)
   /\ IsToolCall(ActionSection(response))
   /\ ~HasTool(tools, CallName(ActionSection(response))))
  => /\ InvokedNow = <<>>
     /\ EndsWithPair(ActionSection(response),
                     NotFoundObservation(CallName(ActionSection(response))))
     /\ current_step = calls
     /\ outcome # "Raised"
     /\ pc = "done" => (outcome = "Aborted" /\ current_step = max_steps)

\* C6: a handler that raises does not end the run: the failure becomes an
\* Observation, the Action/Observation pair is appended and the run goes on.
C6_HandlerFailure ==
  (\E i \in 1..Len(invoked) : invoked[i].result = Raised)
  => /\ outcome # "Raised"
     /\ Len(history) >= 2 * Len(SelectSeq(invoked, LAMBDA e : e.result # Running))

\* C7: a non-empty reply with no "Action:" marker does not make run fail: the
\* run goes on to the next iteration (or ends on the step budget) and no
\* handler is invoked.
C7_NoActionMarker ==
  (IterationOver /\ response # <<>> /\ ~HasAction(response))
  => /\ outcome # "Raised"
     /\ InvokedNow = <<>>
     /\ pc = "done" => (outcome = "Aborted" /\ current_step = max_steps)

C9_EmptyArgument ==
  (/\ IterationOver
   /\ HasAction(response)
   /\ \E i \in 1..Len(tools) : ActionSection(response) = tools[i].name \o <<LB, RB>>)
  => /\ Len(InvokedNow) = 1
     /\ InvokedNow[1].input = <<>>
     /\ InvokedNow[1].result # Raised
        => EndsWithPair(ActionSection(response), InvokedNow[1].result)

\* C10: of a reply that holds two Thought/Action pairs only the first is
\* acted on: the tool name and argument (or the Finish answer) and the Action
\* text appended come from the first pair, nothing of the second pair is
\* executed or recorded.
IsTwoPairs(reply) ==
  LET th == {i \in 1..Len(reply) : reply[i] = TH}
      ac == {i \in 1..Len(reply) : reply[i] = AC}
  IN  \E j \in ac, k \in th :
         /\ j < k
         /\ \E i \in th : i < j
         /\ \E l \in ac : k < l
FirstPairAction(reply) == ActionContent(Truncate(reply))

C10_FirstPairOnly ==
  (IterationOver /\ IsTwoPairs(response))
  => /\ \A i \in 1..Len(InvokedNow) :
           /\ InvokedNow[i].name = _parse_action(FirstPairAction(response)).name
           /\ InvokedNow[i].input = _parse_action(FirstPairAction(response)).input
     /\ is_success => final_answer = FinishMatch(FirstPairAction(response))
     /\ \A i \in 1..Len(history) : Range(Tail(history[i])) \cap Markers = {}

\* C11: an empty reply of the model client ends the run Aborted at once: no
\* further model call is made, no handler is invoked, and the trajectory is
\* what it was when the prompt of that iteration was built.
C11_EmptyReplyAborts ==
  (calls >= 1 /\ response = <<>>)
  => /\ pc = "done"
     /\ outcome = "Aborted"
     /\ InvokedNow = <<>>
     /\ Join(history) = SubSeq(user_prompt, 5, Len(user_prompt))

\* an empty reply after a tool call, with steps left in the budget
C11_Witness ==
  /\ pc = "done"
  /\ response = <<>>
  /\ calls >= 2
  /\ history # <<>>
  /\ current_step < max_steps

\* C12: a run ends in one of three ways that its report tells apart: Finished
\* with an answer, Aborted because the model gave no output, Aborted because
\* the steps ran out; the two Aborted ends are reported differently and with
\* no answer.
Said(tag) == tag \in Range(stdout)
C12_ThreeOutcomes ==
  pc = "done"
  => \/ /\ outcome = "Finished"
        /\ final_answer # None
        /\ Said("final_answer") /\ ~Said("terminated") /\ ~Said("llm_failed")
     \/ /\ outcome = "Aborted"
        /\ response = <<>> /\ calls >= 1
        /\ final_answer = None
        /\ Said("llm_failed") /\ Said("terminated") /\ ~Said("final_answer")
     \/ /\ outcome = "Aborted"
        /\ current_step = max_steps
        /\ final_answer = None
        /\ ~Said("llm_failed") /\ Said("terminated") /\ ~Said("final_answer")

\* C13: when the request of the model client fails, think returns the empty
\* string, and run ends Aborted without parsing a text or calling a tool.
C13_FailedRequest ==
  (calls >= 1 /\ ~request_ok)
  => /\ response = <<>>
     /\ pc = "done"
     /\ outcome = "Aborted"
     /\ ~Said("thought") /\ ~Said("action")
     /\ InvokedNow = <<>>

\* the registerTool calls made for a name, and the latest of them
CallsFor(name) == {i \in 1..Len(registered) : registered[i].name = name}
LatestFor(name) == registered[MaxOf(CallsFor(name))]

\* C14: after any sequence of registerTool calls, getTool(name) is the handler
\* of the latest call for exactly that name (names differ by case) and the
\* not-found value for a name never registered.
C14_Resolve ==
  \A name \in ToolNames \cup {<<"a">>} :
     getTool(tools, name) =
        IF CallsFor(name) = {} THEN NoFunc ELSE LatestFor(name).func

\* a name registered twice with two handlers, while the name that differs
\* from it by case only was never registered
C14_Witness ==
  /\ Cardinality(CallsFor(<<"S">>)) >= 2
  /\ \E i \in CallsFor(<<"S">>) : registered[i].func # LatestFor(<<"S">>).func
  /\ CallsFor(<<"s">>) = {}
  /\ getTool(tools, <<"s">>) = NoFunc

\* C15: getAvailableToolsDesc renders one line "- {name}: {description}" for
\* each distinct registered name, with the description of the latest call
\* for the name, the names in the order in which they were first registered.
ExpectedLines ==
  LET RECURSIVE L(_)
      L(n) == IF n = 0 THEN <<>>
              ELSE L(n - 1) \o
                   (IF n = MinOf(CallsFor(registered[n].name))
                    THEN <<<<"-", SP>> \o registered[n].name
                           \o <<":", SP, LatestFor(registered[n].name).description>>>>
                    ELSE <<>>)
  IN  L(Len(registered))

C15_Describe ==
  /\ getAvailableToolsDesc(tools) = Join(ExpectedLines)
  /\ Len(tools) = Cardinality({registered[i].name : i \in 1..Len(registered)})

\* a first name, a second name, and the first name again with another
\* description
C15_Witness ==
  /\ Len(registered) = 3
  /\ registered[1].name = registered[3].name
  /\ registered[1].name # registered[2].name
  /\ registered[1].description # registered[3].description

\* C16: within one run the trajectory is append-only: every step of the run
\* leaves it as it is or extends it, so that it extends each of its earlier
\* values; no entry is changed, moved or removed.
RunStarts == pc \in {"idle", "done"} /\ pc' = "loop"
C16_AppendOnly ==
  [][~RunStarts =>
       /\ Len(history') >= Len(history)
       /\ SubSeq(history', 1, Len(history)) = history]_vars

\* a trajectory of two pairs
C16_Witness == pc = "loop" /\ Len(history) >= 4

\* C17: for a model that issues k calls of registered tools and then
\* Finish[A], with k + 1 <= max_steps, the run ends Finished with answer A
\* after k + 1 steps, and the trajectory then holds exactly the k
\* Action/Observation pairs of the calls, in order, each Observation being
\* what the tool returned.
C17_CallsThenFinish ==
  (/\ pc = "done"
   /\ calls >= 1
   /\ IsFinishReply(replies[calls])
   /\ \A i \in 1..(calls - 1) :
         /\ HasAction(replies[i])
         /\ IsToolCall(ActionSection(replies[i]))
         /\ HasTool(tools, CallName(ActionSection(replies[i]))))
  => /\ outcome = "Finished"
     /\ final_answer = FinishReplyAnswer(replies[calls])
     /\ current_step = calls
     /\ Len(invoked) = calls - 1
     /\ Len(history) = 2 * (calls - 1)
     /\ \A i \in 1..(calls - 1) :
           /\ history[2 * i - 1] = ActionEntry(ActionSection(replies[i]))
           /\ history[2 * i] = ObservationEntry(invoked[i].result)

\* C18: every run on an agent starts with an empty trajectory and step 0,
\* whatever the run before left: the prompt of the first model call of a run
\* holds no Action and no Observation.
C18_FreshRun ==
  (calls = 0 /\ pc \in {"loop", "think"})
  => /\ history = <<>>
     /\ pc = "loop" => current_step = 0
     /\ pc = "think" =>
           /\ current_step = 1
           /\ AC \notin Range(user_prompt)
           /\ OB \notin Range(user_prompt)

\* the first model call of a second run, the first run having left entries
C18_Witness ==
  /\ runs >= 2
  /\ stale
  /\ pc = "think"
  /\ calls = 0

\* C19: the steps of a run are sequential: the prompt of a model call is the
\* question and the rendering of everything appended before; a model call
\* is issued only when no handler is running and every Observation of a
\* handler that returned is in the trajectory, in the order of the calls; at
\* most one handler is running at any time.
RunningNow == {i \in 1..Len(invoked) : invoked[i].result = Running}
ReturnedObservations ==
  LET done == SelectSeq(invoked, LAMBDA e : e.result \notin {Running, Raised})
  IN  [i \in 1..Len(done) |-> <<OB>> \o done[i].result]
HandlerObservations ==
  SelectSeq(history, LAMBDA e : e[1] = OB /\ Tail(e) \in HandlerReturns)

C19_Sequential ==
  /\ Cardinality(RunningNow) <= 1
  /\ RunningNow # {} => pc = "tool"
  /\ HandlerObservations = ReturnedObservations
  /\ pc = "think" =>
        user_prompt = <<"Question:">> \o Question \o <<NL, "History:">> \o Join(history)

\* the third model call of a run, after two tool calls
C19_Witness ==
  /\ pc = "think"
  /\ calls = 2
  /\ Len(invoked) = 2
  /\ Len(history) = 4

\* C21: for an Action that starts with "Finish[", the answer is one
\* non-greedy bracket span: the text between that "[" and the first "]" after
\* it (for "Finish[a] b]" the answer is "a").
FirstSpan(a) == SubSeq(a, 3, MinOf({j \in 3..Len(a) : a[j] = RB}) - 1)
C21_FinishSpan ==
  (/\ IterationOver
   /\ HasAction(response)
   /\ IsFinishDirective(ActionSection(response)))
  => /\ is_success
     /\ final_answer = FirstSpan(ActionSection(response))

\* C22: an Action that begins with the letters "Finish" but is not "Finish"
\* and a bracketed span is classified by the shape name[argument], or else as
\* Unparseable: it never ends the run Finished and never makes run fail.
C22_FinishPrefix ==
  (/\ IterationOver
   /\ HasAction(response)
   /\ StartsWithFinish(ActionSection(response))
   /\ ~IsFinishDirective(ActionSection(response)))
  => /\ outcome # "Raised"
     /\ ~is_success
     /\ (IsToolCall(ActionSection(response))
         /\ ~HasTool(tools, CallName(ActionSection(response))))
        => EndsWithPair(ActionSection(response),
                        NotFoundObservation(CallName(ActionSection(response))))
     /\ ~IsToolCall(ActionSection(response))
        => (InvokedNow = <<>> /\ UserPrompt(history) = user_prompt)

\* C24: in an iteration whose Action is present but is neither a Finish
\* directive nor of the shape name[argument], nothing is appended to the
\* trajectory, no handler is invoked, and the iteration has used one step of
\* the budget; when the Action does not begin with "Finish" the run goes on
\* to the next iteration, or ends there because the steps ran out.
C24_UnparseableStep ==
  (/\ IterationOver
   /\ HasAction(response)
   /\ ~IsFinishDirective(ActionSection(response))
   /\ ~IsToolCall(ActionSection(response)))
  => /\ Join(history) = SubSeq(user_prompt, 5, Len(user_prompt))
     /\ InvokedNow = <<>>
     /\ current_step = calls
     /\ ~StartsWithFinish(ActionSection(response))
        => /\ outcome \in {"none", "Aborted"}
           /\ pc = "done" => (outcome = "Aborted" /\ current_step = max_steps)

\* two malformed Actions in a row used up a budget of two steps, and nothing
\* was appended
C24_Witness ==
  /\ pc = "loop"
  /\ max_steps = 2
  /\ current_step = 2
  /\ calls = 2
  /\ \A i \in 1..2 : HasAction(replies[i]) /\ IsUnparseable(replies[i])
  /\ history = <<>>
  /\ invoked = <<>>

\* C26: between the iterations of a run the trajectory is a sequence of
\* adjacent pairs (Action entry, Observation entry), as many as iterations so
\* far dispatched a tool call (found or not found); an Action is only ever
\* appended together with its Observation.
Dispatched == Len(SelectSeq(stdout, LAMBDA t : t = "call"))
IsPairs(h) ==
  /\ Len(h) % 2 = 0
  /\ \A i \in 1..Len(h) : h[i][1] = (IF i % 2 = 1 THEN AC ELSE OB)
C26_PairsBetweenIterations ==
  (pc = "loop") => (IsPairs(history) /\ Len(history) = 2 * Dispatched)
C26_Pairs ==
  /\ []C26_PairsBetweenIterations
  /\ [][(history' # history /\ ~RunStarts)
        => /\ Len(history') = Len(history) + 2
           /\ SubSeq(history', 1, Len(history)) = history
           /\ history'[Len(history) + 1] = ActionEntry(ActionContent(response'))
           /\ history'[Len(history) + 2][1] = OB]_vars

\* after a call of a registered tool and a call of a tool that is not
\* registered
C26_Witness ==
  /\ pc = "loop"
  /\ Len(history) = 4
  /\ Len(invoked) = 1
  /\ Dispatched = 2

\* C23: the Thought of a reply is the text from the "Thought:" marker up to,
\* and not including, the next "Action:" marker, wherever that marker stands,
\* or up to the end of the text when no "Action:" marker follows, trimmed;
\* it is absent exactly when the reply has no "Thought:" marker.
SectionThought(text) ==
  LET ths == {i \in 1..Len(text) : text[i] = TH}
  IN  IF ths = {} THEN None
      ELSE LET acs == {j \in (MinOf(ths) + 1)..Len(text) : text[j] = AC}
               e   == IF acs = {} THEN Len(text) ELSE MinOf(acs) - 1
           IN  Strip(SubSeq(text, MinOf(ths) + 1, e))
C23_ThoughtSection ==
  (pc = "parsed") => (thought = SectionThought(response))

\* the places of the records of type "execution"
ExecutionPlaces == {i \in 1..Len(records) : records[i].type = "execution"}

\* C27: ReflectionAgent.run ends after at most 1 + 2 * max_iterations model
\* calls; the first review that says no change is needed ends it, with no
\* call for new code after that review and without a record of that review;
\* and run returns the content of the latest record of code.
IsReview(i) == prompts[i][1] = "review"
C27_Bounded ==
  /\ Len(prompts) <= 1 + 2 * max_iteration
  /\ \A i \in 1..Len(replies) :
        (IsReview(i) /\ NoImprovement \in Range(replies[i]))
        => /\ i = Len(prompts)
           /\ pc = "done"
  /\ \A i \in 1..Len(records) :
        records[i].type = "reflection" => NoImprovement \notin Range(records[i].content)
  /\ Len(SelectSeq(records, LAMBDA r : r.type = "reflection"))
       = Cardinality({i \in 1..Len(replies) :
                        IsReview(i) /\ NoImprovement \notin Range(replies[i])})
  /\ pc = "done"
     => /\ ExecutionPlaces # {}
        /\ final_code = records[MaxOf(ExecutionPlaces)].content
        /\ final_code = replies[MaxOf({i \in 1..Len(replies) : ~IsReview(i)})]
C27_Reflection == []C27_Bounded /\ <>(pc = "done")

\* a run that was ended by the review of its second iteration
C27_Witness ==
  /\ pc = "done"
  /\ max_iteration = 2
  /\ Len(replies) = 4
  /\ NoImprovement \in Range(replies[4])
  /\ final_code = replies[3]
  /\ replies[3] # replies[1]
  /\ Len(records) = 3

\* C28: after any sequence of add_record calls the records are in the order
\* of the calls, none removed or changed, and get_last_execution returns the
\* content of the latest record of type "execution", whatever was added
\* after it, or None when there is no such record.
C28_LastExecution ==
  /\ get_last_execution(records) =
       (IF ExecutionPlaces = {} THEN None
        ELSE records[MaxOf(ExecutionPlaces)].content)
  /\ pc = "got" => last_code = get_last_execution(records)
C28_Memory ==
  /\ []C28_LastExecution
  /\ [][/\ Len(records') >= Len(records)
        /\ Len(records') <= Len(records) + 1
        /\ SubSeq(records', 1, Len(records)) = records]_vars

\* two records of code and then a review: the second code is returned
C28_Witness ==
  /\ pc = "got"
  /\ Len(records) = 3
  /\ records[1].type = "execution"
  /\ records[2].type = "execution"
  /\ records[2].content # records[1].content
  /\ records[3].type = "reflection"
  /\ last_code = records[2].content

\* C29: PlanAndSolveAgent.run makes exactly one planning call; on an empty
\* plan (also a reply that is no list) it makes no solver call; otherwise it
\* makes one solver call for each step, in the order of the plan, the prompt
\* of step i holding the results of the steps 1..i-1; the final answer is the
\* reply to the last step.
ResultsBefore(i) ==
  LET RECURSIVE upto(_)
      upto(k) == IF k = 0 THEN <<>>
                 ELSE upto(k - 1) \o HistoryEntry(k - 1, plan[k], replies[k + 1])
  IN  upto(i - 1)
C29_PlanThenSolve ==
  /\ pc # "idle" => prompts[1] = PlanPrompt
  /\ \A i \in 1..(Len(prompts) - 1) :
        /\ i <= Len(plan)
        /\ prompts[i + 1] = SolverPrompt(plan, ResultsBefore(i), plan[i])
  /\ pc = "done"
     => IF Len(replies) >= 1 /\ ParsePlan(replies[1]) = <<>>
        THEN /\ Len(prompts) = 1
             /\ final_answer = None
        ELSE /\ plan = ParsePlan(replies[1])
             /\ Len(prompts) = 1 + Len(plan)
             /\ Len(replies) = 1 + Len(plan)
             /\ final_answer = replies[Len(replies)]

\* a plan of three steps was solved, each step with another result
C29_Witness ==
  /\ pc = "done"
  /\ Len(plan) = 3
  /\ plan[1] # plan[2]
  /\ Len(prompts) = 4
  /\ replies[2] # replies[3]
  /\ replies[3] # replies[4]
  /\ final_answer = replies[4]

\* the latest reply of the model client has no "Action: " section, and the
\* round it came in is over
NoActionSection(reply) ==
  ~\E k \in 1..(Len(reply) - 1) : reply[k] = AC /\ reply[k + 1] = SP
AfterNoAction ==
  /\ Len(replies) >= 1
  /\ pc \in {"loop", "think", "done"}
  /\ NoActionSection(replies[Len(replies)])
\* the loop made at most TravelRounds calls of the model client, and none
\* after a reply whose Action is Finish
TravelCalls ==
  /\ Len(prompts) <= TravelRounds
  /\ \A k \in 1..Len(replies) :
        (~NoActionSection(replies[k]) /\ StartsWithFinish(TravelAction(replies[k])))
        => (k = Len(prompts) /\ pc = "done")
\* the history ends with the text `said` and the corrective Observation, no
\* tool was invoked in the round, and the loop went on
CorrectedRound(said) ==
  /\ Len(prompt_histories) >= 3
  /\ prompt_histories[Len(prompt_histories) - 1] = said
  /\ prompt_histories[Len(prompt_histories)] = CorrectiveObservation
  /\ \A k \in 1..Len(invoked) : invoked[k].step # Len(replies)
  /\ iteration = Len(replies)
  /\ pc = "done" => (outcome = "Exhausted" /\ iteration = TravelRounds)

\* C25 as stated: in TravelAgentLoop a reply with no "Action: " section makes
\* the loop append the raw reply and then one corrective Observation, invoke
\* no tool and go on; the loop makes at most 5 model calls and none after the
\* first Finish action.
C25_RawReplyKept ==
  /\ TravelCalls
  /\ AfterNoAction => CorrectedRound(replies[Len(replies)])

\* C25: in TravelAgentLoop a reply with no "Action: " section makes the loop
\* append the reply, cut down to its first Thought/Action pair when more text
\* follows that pair, and then one corrective Observation, invoke no tool and
\* go on; the loop makes at most 5 model calls and none after the first
\* Finish action.
C25_CorrectiveObservation ==
  /\ TravelCalls
  /\ AfterNoAction => CorrectedRound(Truncate(replies[Len(replies)]))

\* after a tool call, a reply without an Action section was cut down, and
\* the corrective Observation is in the prompt of the next call
C25_Witness ==
  /\ pc = "think"
  /\ Len(invoked) >= 1
  /\ AfterNoAction
  /\ Truncate(replies[Len(replies)]) # replies[Len(replies)]
  /\ prompt_histories[Len(prompt_histories)] = CorrectiveObservation
  /\ Len(prompts) = Len(replies) + 1
====
